---- MODULE Spec2Model ----
(***************************************************************************)
(* Zendala: visitor access credentials (qr_codes), their validation and    *)
(* their consumption (access_logs), as implemented by the express routes   *)
(* and DatabaseStorage.  Every storage call is one atomic database         *)
(* statement; a handler is cut at each await, so that requests of several  *)
(* callers interleave between the statements of one handler.               *)
(***************************************************************************)
EXTENDS Integers, Sequences, FiniteSets, TLC

VARIABLES
  users,       \* table users: id -> row
  qrCodes,     \* table qr_codes: the rows in insertion order, id = position
  accessLogs,  \* table access_logs: the rows in insertion order
  now,         \* the clock (Date.now()), in seconds
  ticks,       \* how often the clock has advanced
  nreq,        \* how many requests have been received
  pc,          \* per caller: the await its request in flight is at, or "idle"
  req,         \* per caller: the request in flight (route and body)
  qrCode,      \* per caller: the row its validate handler has read
  res,         \* the response the last step has sent, if it sent one
  gen,         \* a call of generateAccessPassword: its position, i and password
  sessions     \* the session store: per caller (cookie), the passport user

vars ==
  <<users, qrCodes, accessLogs, now, ticks, nreq, pc, req, qrCode, res, gen,
    sessions>>

(* ------------------------------ bounds -------------------------------- *)
MaxQrCodes == 2
MaxRequests == 3
MaxTicks == 1

(* --------------------------- program constants ------------------------ *)
\* 12 * 60 * 60 seconds (the code counts milliseconds; the clock here counts seconds)
TwelveHours == 43200

\* a nullable timestamp column holding NULL
NoTime == -1

\* a nullable string of a request body that is absent
NoString == <<>>

(* ------------------------------ strings ------------------------------- *)
\* strings are sequences of characters, so that trim and toUpperCase compute
toUpperChar(c) ==
  CASE c = "a" -> "A"
    [] c = "b" -> "B"
    [] c = "c" -> "C"
    [] c = "d" -> "D"
    [] c = "e" -> "E"
    [] c = "f" -> "F"
    [] OTHER -> c

toUpperCase(s) == [i \in DOMAIN s |-> toUpperChar(s[i])]

RECURSIVE trimStart(_)
trimStart(s) == IF s # <<>> /\ Head(s) = " " THEN trimStart(Tail(s)) ELSE s

RECURSIVE trimEnd(_)
trimEnd(s) ==
  IF s # <<>> /\ s[Len(s)] = " " THEN trimEnd(SubSeq(s, 1, Len(s) - 1)) ELSE s

trim(s) == trimEnd(trimStart(s))

(* ----------------------- generateAccessPassword ----------------------- *)
letters ==
  <<"A","B","C","D","E","F","G","H","I","J","K","L","M",
    "N","O","P","Q","R","S","T","U","V","W","X","Y","Z">>

numbers == <<"0","1","2","3","4","5","6","7","8","9">>

LetterCount == 4
NumberCount == 4

\* Math.random() is in [0, 1): its outcomes are counted in thousandths
Thousandths == 1000

\* the outcomes of Math.random() the model draws from: 0, 0.499 and 0.999
MathRandom == {0, 499, Thousandths - 1}

\* an index rounded up instead of down
MathCeilTimes(random, length) == (random * length + Thousandths - 1) \div Thousandths

\* Math.floor(Math.random() * length)
MathFloorTimes(random, length) == (random * length) \div Thousandths

\* String.prototype.charAt: the character at index (from 0), or the empty string
charAt(s, index) == IF index + 1 \in DOMAIN s THEN <<s[index + 1]>> ELSE <<>>

NoGen == [pc |-> "idle", i |-> 0, password |-> <<>>]

\* let password = ""; and the first loop is entered
GenerateCall ==
  /\ gen.pc \in {"idle", "return"}
  /\ gen' = [pc |-> "letters", i |-> 0, password |-> <<>>]

\* one round of the loop that adds 4 random letters
GenerateLetter ==
  /\ gen.pc = "letters"
  /\ gen.i < LetterCount
  /\ \E random \in MathRandom :
       gen' = [gen EXCEPT
                 !.password = @ \o charAt(letters, MathFloorTimes(random, Len(letters))),
                 !.i = @ + 1]

\* the first loop is left; password += "-"; the second loop is entered
GenerateHyphen ==
  /\ gen.pc = "letters"
  /\ ~(gen.i < LetterCount)
  /\ gen' = [pc |-> "numbers", i |-> 0, password |-> gen.password \o <<"-">>]

\* one round of the loop that adds 4 random numbers
GenerateNumber ==
  /\ gen.pc = "numbers"
  /\ gen.i < NumberCount
  /\ \E random \in MathRandom :
       gen' = [gen EXCEPT
                 !.password = @ \o charAt(numbers, MathFloorTimes(random, Len(numbers))),
                 !.i = @ + 1]

\* the second loop is left; return password
GenerateReturn ==
  /\ gen.pc = "numbers"
  /\ ~(gen.i < NumberCount)
  /\ gen' = [gen EXCEPT !.pc = "return"]

\* outcomes of generateAccessPassword the model draws from (LLLL-DDDD)
GeneratedPasswords ==
  { <<"A","B","C","D","-","0","1","2","3">>,
    <<"F","A","C","E","-","4","5","6","7">> }

\* outcomes of randomUUID the model draws from (lower-case hex, shortened)
GeneratedCodes ==
  { <<"a","1","-","b","2">>, <<"c","3","-","d","4">> }

(* ------------------------------- users -------------------------------- *)
\* the callers: each has at most one request in flight
UserIds == {"vecino1", "vecino2", "guardia1", "guardia2"}

\* createHash("sha256").update(password).digest("hex"), taken as free of
\* collisions
sha256(password) == <<"sha256", password>>

\* the hash of no password (null)
NoHash == <<>>

\* the password the administrator gave the accounts
InitialPassword == <<"s", "1">>

\* the accounts of table users: one resident and two guards, which the
\* administrator has created with createLocalUser
InitialUsers ==
  [u \in UserIds \ {"vecino2"} |->
     [id |-> u,
      role |-> CASE u = "vecino1" -> "vecino" [] OTHER -> "guardia",
      firstName |-> u,
      username |-> u,
      passwordHash |-> sha256(InitialPassword)]]

\* the same accounts and a second resident
TwoResidents ==
  [u \in UserIds |->
     IF u = "vecino2"
       THEN [id |-> u, role |-> "vecino", firstName |-> u, username |-> u,
             passwordHash |-> sha256(InitialPassword)]
     ELSE InitialUsers[u]]

\* the user of no row (undefined)
NoUser ==
  [id |-> "", role |-> "", firstName |-> "", username |-> "", passwordHash |-> NoHash]

\* select ... where id = id: the row, or undefined
getUser(id) == IF id \in DOMAIN users THEN users[id] ELSE NoUser

(* ------------------------- role middleware ---------------------------- *)
isVecinoOrAdmin(userId) ==
  getUser(userId).role = "vecino" \/ getUser(userId).role = "administrador"

isGuardOrAdmin(userId) ==
  getUser(userId).role = "guardia" \/ getUser(userId).role = "administrador"

(* ------------------------------ qr_codes ------------------------------ *)
NoQrCode ==
  [id |-> 0, code |-> <<>>, accessPassword |-> <<>>, visitorName |-> "",
   visitorType |-> "", createdById |-> "", isUsed |-> "", usedAt |-> NoTime, createdAt |-> NoTime,
   expiresAt |-> NoTime]

QrIds == 1..Len(qrCodes)

\* select ... where code = c: the first row, or undefined
getQrCodeByCode(c) ==
  IF \E i \in QrIds : qrCodes[i].code = c
    THEN qrCodes[CHOOSE i \in QrIds :
                   /\ qrCodes[i].code = c
                   /\ \A j \in QrIds : qrCodes[j].code = c => i <= j]
    ELSE NoQrCode

\* select ... where access_password = p: the first row, or undefined
getQrCodeByPassword(p) ==
  IF \E i \in QrIds : qrCodes[i].accessPassword = p
    THEN qrCodes[CHOOSE i \in QrIds :
                   /\ qrCodes[i].accessPassword = p
                   /\ \A j \in QrIds : qrCodes[j].accessPassword = p => i <= j]
    ELSE NoQrCode

\* the rows in the order of p, a sequence of ids
rowsOf(p) == [k \in DOMAIN p |-> qrCodes[p[k]]]

\* the orders in which the rows of ids can come, the latest created_at first
\* (rows of one created_at come in any order)
descCreatedAt(ids) ==
  { p \in [1..Cardinality(ids) -> ids] :
      /\ \A k, l \in DOMAIN p : k # l => p[k] # p[l]
      /\ \A k, l \in DOMAIN p :
           k < l => qrCodes[p[k]].createdAt >= qrCodes[p[l]].createdAt }

\* the rows of all users, whoever asks
getQrCodesOfAllUsers(userId) == { rowsOf(p) : p \in descCreatedAt(QrIds) }

\* select ... where created_by_id = userId order by created_at desc: the results
\* the statement can give
getQrCodesByUser(userId) ==
  { rowsOf(p) :
      p \in descCreatedAt({i \in QrIds : qrCodes[i].createdById = userId}) }

\* update qr_codes set is_used = 'used', used_at = now where id = id
updateQrCodeUsed(id) ==
  [i \in QrIds |->
     IF i = id THEN [qrCodes[i] EXCEPT !.isUsed = "used", !.usedAt = now]
     ELSE qrCodes[i]]

\* an expiry write that keeps to the former "true"/"false" flag
markQrCodeAsExpiredFlag(id) ==
  [i \in QrIds |->
     IF i = id THEN [qrCodes[i] EXCEPT !.isUsed = "true"] ELSE qrCodes[i]]

\* update qr_codes set is_used = 'expired' where id = id
markQrCodeAsExpired(id) ==
  [i \in QrIds |->
     IF i = id THEN [qrCodes[i] EXCEPT !.isUsed = "expired"] ELSE qrCodes[i]]

\* the row createQrCode inserts: its deadline is the one of the parsed body
createQrCode(qrCodeData, code, accessPassword) ==
  [id |-> Len(qrCodes) + 1,
   code |-> code,
   accessPassword |-> accessPassword,
   visitorName |-> qrCodeData.visitorName,
   visitorType |-> qrCodeData.visitorType,
   createdById |-> qrCodeData.createdById,
   isUsed |-> "unused",
   usedAt |-> NoTime,
   createdAt |-> now,
   expiresAt |-> qrCodeData.expiresAt]

\* qr_codes.code is unique
codeIsFree(code) == \A i \in QrIds : qrCodes[i].code # code

(* ----------------------------- access_logs ---------------------------- *)
createAccessLog(logData) ==
  Append(accessLogs,
         [id |-> Len(accessLogs) + 1,
          qrCodeId |-> logData.qrCodeId,
          guardId |-> logData.guardId])

\* access_logs.qr_code_id references qr_codes.id
qrCodeExists(id) == id \in QrIds

(* ------------------------------ requests ------------------------------ *)
\* req.user of a request without session, and the session of no login
NoSessionUser ==
  [sub |-> "", id |-> "", role |-> "", expires_at |-> 0, refresh_token |-> FALSE]

\* req.user?.claims?.sub || req.user?.id
userIdOf(user) == IF user.sub # "" THEN user.sub ELSE user.id

NoReq ==
  [route |-> "", password |-> NoString, code |-> NoString, qrCodeId |-> 0,
   role |-> "", username |-> "", guardId |-> "", authorization |-> <<>>, user |-> NoSessionUser]

NoRes ==
  [user |-> "", route |-> "", status |-> 0, valid |-> FALSE, message |-> "",
   id |-> 0, visitorName |-> "", accessPassword |-> NoString, createdBy |-> "",
   list |-> <<>>, account |-> NoUser, stats |-> <<>>,
   token |-> <<>>]

Json(status, message) ==
  [user |-> "", route |-> "", status |-> status, valid |-> FALSE,
   message |-> message, id |-> 0, visitorName |-> "", accessPassword |-> NoString,
   createdBy |-> "", list |-> <<>>, account |-> NoUser, stats |-> <<>>,
   token |-> <<>>]

Init ==
  /\ users = InitialUsers
  /\ qrCodes = <<>>
  /\ accessLogs = <<>>
  /\ now = 0
  /\ ticks = 0
  /\ nreq = 0
  /\ pc = [u \in UserIds |-> "idle"]
  /\ req = [u \in UserIds |-> NoReq]
  /\ qrCode = [u \in UserIds |-> NoQrCode]
  /\ res = NoRes
  /\ gen = NoGen
  /\ sessions = [u \in UserIds |-> NoSessionUser]

\* the clock advances between any two statements
Tick ==
  /\ ticks < MaxTicks
  /\ \E d \in {1, TwelveHours} : now' = now + d
  /\ ticks' = ticks + 1
  /\ res' = NoRes
  /\ UNCHANGED <<gen, sessions, users, qrCodes, accessLogs, nreq, pc, req, qrCode>>

\* a request of caller u arrives
begin(u) ==
  /\ pc[u] = "idle"
  /\ nreq < MaxRequests
  /\ nreq' = nreq + 1

\* res.json: the response is sent and the handler's locals are gone
respond(u, route, r) ==
  /\ res' = [r EXCEPT !.user = u, !.route = route]
  /\ pc' = [pc EXCEPT ![u] = "idle"]
  /\ req' = [req EXCEPT ![u] = NoReq]
  /\ qrCode' = [qrCode EXCEPT ![u] = NoQrCode]

\* the handler of request r goes on to the await at label, having read row q
await(u, r, label, q) ==
  /\ res' = NoRes
  /\ pc' = [pc EXCEPT ![u] = label]
  /\ req' = [req EXCEPT ![u] = r]
  /\ qrCode' = [qrCode EXCEPT ![u] = q]

(* ------------------------- POST /api/qr-codes ------------------------- *)
\* a property of a request body: absent, or present with a value
Absent == <<>>

Present(v) == <<v>>

VisitorNames == {"Ana Ruiz"}

\* the three visitor categories the resident's form offers
VisitorTypes == {"visita", "proveedor", "prestador"}

\* the deadlines a request body may carry: none, or a time of the caller's choice
BodyExpiresAt == {NoTime, now + 1}

\* insertQrCodeSchema: visitorName and visitorType are required strings
insertQrCodeSchemaAccepts(body) ==
  body.visitorName # Absent /\ body.visitorType # Absent

\* insertQrCodeSchema.parse: the body's columns, less the omitted ones
insertQrCodeSchemaParse(body) ==
  [visitorName |-> body.visitorName[1],
   visitorType |-> body.visitorType[1],
   expiresAt |-> body.expiresAt]

\* the handler for one request body
\* the handler, of a body and of what the generators return
QrCodesPostHandler(u, body, code, accessPassword) ==
  IF ~insertQrCodeSchemaAccepts(body)
    THEN /\ qrCodes' = qrCodes
         /\ respond(u, "POST /api/qr-codes", Json(400, "Invalid data"))
    ELSE LET validatedData == insertQrCodeSchemaParse(body)
             dataToInsert ==
               [visitorName |-> validatedData.visitorName,
                visitorType |-> validatedData.visitorType,
                expiresAt |-> validatedData.expiresAt,
                createdById |-> u]
             row == createQrCode(dataToInsert, code, accessPassword)
         IN IF codeIsFree(code)
              THEN /\ qrCodes' = Append(qrCodes, row)
                   /\ respond(u, "POST /api/qr-codes",
                              [Json(200, "") EXCEPT
                                 !.id = row.id,
                                 !.visitorName = row.visitorName,
                                 !.accessPassword = row.accessPassword])
              ELSE /\ qrCodes' = qrCodes
                   /\ respond(u, "POST /api/qr-codes",
                              Json(500, "Failed to create QR code"))

\* a request of a caller whom the middlewares let pass
QrCodesPostBody(u, body) ==
  \E code \in GeneratedCodes, accessPassword \in GeneratedPasswords :
    /\ begin(u)
    /\ isVecinoOrAdmin(u)
    /\ Len(qrCodes) < MaxQrCodes
    /\ QrCodesPostHandler(u, body, code, accessPassword)
    /\ UNCHANGED <<gen, sessions, users, accessLogs, now, ticks>>

\* a request of the resident's form: a name and one category
QrCodesPost(u) ==
  \E n \in VisitorNames, e \in BodyExpiresAt :
    QrCodesPostBody(u, [visitorName |-> Present(n),
                        visitorType |-> Present("visita"),
                        expiresAt |-> e])

\* what any client may send as name and category
BodyVisitorNames == {Absent, Present(""), Present("Ana Ruiz")}

BodyVisitorTypes == {Absent, Present("otro")} \cup {Present(t) : t \in VisitorTypes}

\* a request of any client
QrCodesPostAnyBody(u) ==
  \E n \in BodyVisitorNames, t \in BodyVisitorTypes, e \in BodyExpiresAt :
    QrCodesPostBody(u, [visitorName |-> n, visitorType |-> t, expiresAt |-> e])

(* -------------------------- GET /api/qr-codes -------------------------- *)
QrCodesGetHandler(u) ==
  \E list \in getQrCodesByUser(u) :
    respond(u, "GET /api/qr-codes", [Json(200, "") EXCEPT !.list = list])

QrCodesGet(u) ==
  /\ begin(u)
  /\ isVecinoOrAdmin(u)
  /\ QrCodesGetHandler(u)
  /\ UNCHANGED <<gen, sessions, users, qrCodes, accessLogs, now, ticks>>

(* --------------------- POST /api/qr-codes/validate -------------------- *)
\* what a guard may type or scan
PasswordInputs ==
  { <<" ","a","b","c","d","-","0","1","2","3"," ">>, <<"a","1","-","b","2">> }

CodeInputs ==
  { <<" ","a","1","-","b","2">>, <<"a","b","c","d","-","0","1","2","3">> }

ValidateBodies ==
  { [password |-> p, code |-> NoString] : p \in PasswordInputs }
    \cup { [password |-> NoString, code |-> c] : c \in CodeInputs }
    \cup { [password |-> NoString, code |-> NoString] }

\* the validate handler, and the validate handler of server/routes.ts
Validate == "POST /api/qr-codes/validate"
ValidateRoutesTs == "POST /api/qr-codes/validate (server/routes.ts)"

\* a missing credential answered as an HTTP error instead of as a result
NotFoundAsError == Json(404, "Contrasena o codigo no encontrado")

NotFound == Json(200, "Contrasena o codigo no encontrado")

Expired12h == Json(200, "Este codigo ha expirado (pasaron mas de 12 horas)")

NotUnused(isUsed) ==
  Json(200, IF isUsed = "used" THEN "Este acceso ya ha sido utilizado"
            ELSE "Este codigo ha expirado")

Valid(q) ==
  [user |-> "", route |-> "", status |-> 200, valid |-> TRUE, message |-> "",
   id |-> q.id, visitorName |-> q.visitorName, accessPassword |-> NoString,
   createdBy |-> getUser(q.createdById).firstName, list |-> <<>>,
   account |-> NoUser, stats |-> <<>>,
   token |-> <<>>]

\* a deadline that is over from the deadline itself on (off by one)
isExpiredAtDeadline(q) == q.expiresAt # NoTime /\ now >= q.expiresAt

\* nowTime > expiresAtTime, for a row that has a deadline
isExpired(q) == q.expiresAt # NoTime /\ now > q.expiresAt

\* the handler from the row it has found to its next await or to its response
validateFound(u, q) ==
  IF q.id = 0 THEN respond(u, Validate, NotFound)
  ELSE IF isExpired(q)
    THEN IF q.isUsed = "unused" THEN await(u, req[u], "markQrCodeAsExpired", q)
         ELSE respond(u, Validate, Expired12h)
  ELSE IF q.isUsed # "unused" THEN respond(u, Validate, NotUnused(q.isUsed))
  ELSE await(u, req[u], "getUser", q)

\* the same stretch of the handler in server/routes.ts
validateFoundRoutesTs(u, q) ==
  IF q.id = 0 THEN respond(u, ValidateRoutesTs, NotFound)
  ELSE IF q.isUsed = "true" THEN respond(u, ValidateRoutesTs, NotUnused("used"))
  ELSE await(u, req[u], "getUser", q)

\* the handler of request r, up to its first lookup
ValidateHandler(u, r) ==
  IF r.password # NoString THEN await(u, r, "getQrCodeByPassword", NoQrCode)
  ELSE IF r.code # NoString THEN await(u, r, "getQrCodeByCode", NoQrCode)
  ELSE respond(u, r.route, Json(400, "Password or code is required"))

ValidatePost(u) ==
  \E b \in ValidateBodies, route \in {Validate, ValidateRoutesTs} :
    /\ begin(u)
    /\ isGuardOrAdmin(u)
    /\ ValidateHandler(u, [NoReq EXCEPT !.route = route,
                                        !.password = b.password,
                                        !.code = b.code])
    /\ UNCHANGED <<gen, sessions, users, qrCodes, accessLogs, now, ticks>>

ValidateByPassword(u) ==
  /\ pc[u] = "getQrCodeByPassword"
  /\ LET passwordStr == trim(req[u].password)
         q == getQrCodeByPassword(toUpperCase(passwordStr))
     IN IF req[u].route = Validate
          THEN IF q.id = 0
                 THEN await(u, [req[u] EXCEPT !.code = passwordStr],
                            "getQrCodeByCode", NoQrCode)
                 ELSE validateFound(u, q)
          ELSE validateFoundRoutesTs(u, q)
  /\ UNCHANGED <<gen, sessions, users, qrCodes, accessLogs, now, ticks, nreq>>

ValidateByCode(u) ==
  /\ pc[u] = "getQrCodeByCode"
  /\ LET q == getQrCodeByCode(trim(req[u].code))
     IN IF req[u].route = Validate THEN validateFound(u, q)
        ELSE validateFoundRoutesTs(u, q)
  /\ UNCHANGED <<gen, sessions, users, qrCodes, accessLogs, now, ticks, nreq>>

ValidateMarkExpired(u) ==
  /\ pc[u] = "markQrCodeAsExpired"
  /\ qrCodes' = markQrCodeAsExpired(qrCode[u].id)
  /\ respond(u, Validate, Expired12h)
  /\ UNCHANGED <<gen, sessions, users, accessLogs, now, ticks, nreq>>

ValidateGetUser(u) ==
  /\ pc[u] = "getUser"
  /\ respond(u, req[u].route, Valid(qrCode[u]))
  /\ UNCHANGED <<gen, sessions, users, qrCodes, accessLogs, now, ticks, nreq>>

(* ------------------------ POST /api/access-logs ----------------------- *)
AccessLogs == "POST /api/access-logs"

\* the ids a confirm body may carry: none (0), a credential's, or one of no row
BodyQrCodeIds == (0..Len(qrCodes)) \cup {MaxQrCodes + 1}

\* the handler of request r, up to its first write
AccessLogsHandler(u, r) ==
  IF r.qrCodeId = 0 THEN respond(u, AccessLogs, Json(400, "QR code ID is required"))
  ELSE await(u, r, "updateQrCodeUsed", NoQrCode)

\* the guard of the event is the one the body names, when it names one
guardIdOfBody(r) == IF r.guardId # "" THEN r.guardId ELSE userIdOf(r.user)

\* const guardId = req.user.claims?.sub || req.user.id
guardIdOf(r) == userIdOf(r.user)

\* a request of a caller whom the middlewares let pass, of a body that names
\* credential id and, beyond what the handler reads, a guard
AccessLogsPostBody(u, id, guardId) ==
  /\ begin(u)
  /\ isGuardOrAdmin(u)
  /\ AccessLogsHandler(u, [NoReq EXCEPT !.route = AccessLogs,
                                        !.qrCodeId = id,
                                        !.guardId = guardId,
                                        !.user = [NoSessionUser EXCEPT !.id = u]])
  /\ UNCHANGED <<gen, sessions, users, qrCodes, accessLogs, now, ticks>>

\* a request of the guard's screen
AccessLogsPost(u) == \E id \in BodyQrCodeIds : AccessLogsPostBody(u, id, "")

\* what any client may add to the body as guard
BodyGuardIds == {"", "vecino1", "guardia2"}

\* a request of any client
AccessLogsPostAnyBody(u) ==
  \E id \in BodyQrCodeIds, guardId \in BodyGuardIds :
    AccessLogsPostBody(u, id, guardId)

AccessLogsUpdate(u) ==
  /\ pc[u] = "updateQrCodeUsed"
  /\ qrCodes' = updateQrCodeUsed(req[u].qrCodeId)
  /\ await(u, req[u], "createAccessLog", NoQrCode)
  /\ UNCHANGED <<gen, sessions, users, accessLogs, now, ticks, nreq>>

\* the insert succeeds, or the store rejects it (foreign key, or the store fails)
AccessLogsInsert(u) ==
  /\ pc[u] = "createAccessLog"
  /\ \E storeFails \in BOOLEAN :
       IF qrCodeExists(req[u].qrCodeId) /\ ~storeFails
         THEN /\ accessLogs' =
                   createAccessLog([qrCodeId |-> req[u].qrCodeId,
                                    guardId |-> guardIdOf(req[u])])
              /\ respond(u, AccessLogs, [Json(200, "") EXCEPT !.id = req[u].qrCodeId])
         ELSE /\ accessLogs' = accessLogs
              /\ respond(u, AccessLogs, Json(500, "Failed to create access log"))
  /\ UNCHANGED <<gen, sessions, users, qrCodes, now, ticks, nreq>>

\* the row the handler's lookups find for a body, run without interleaving
validateLookup(b) ==
  IF b.password # NoString
    THEN LET passwordStr == trim(b.password)
             q == getQrCodeByPassword(toUpperCase(passwordStr))
         IN IF q.id # 0 THEN q ELSE getQrCodeByCode(passwordStr)
    ELSE getQrCodeByCode(trim(b.code))

\* the response of the validate handler to a body, run without interleaving
validateResponse(b) ==
  LET q == validateLookup(b)
  IN IF b.password = NoString /\ b.code = NoString
       THEN Json(400, "Password or code is required")
     ELSE IF q.id = 0 THEN NotFound
     ELSE IF isExpired(q) THEN Expired12h
     ELSE IF q.isUsed # "unused" THEN NotUnused(q.isUsed)
     ELSE Valid(q)

\* the row the lookup of the handler in server/routes.ts finds for a body
validateLookupRoutesTs(b) ==
  IF b.password # NoString
    THEN getQrCodeByPassword(toUpperCase(trim(b.password)))
    ELSE getQrCodeByCode(trim(b.code))

\* the response of the handler in server/routes.ts, run without interleaving
validateResponseRoutesTs(b) ==
  LET q == validateLookupRoutesTs(b)
  IN IF b.password = NoString /\ b.code = NoString
       THEN Json(400, "Password or code is required")
     ELSE IF q.id = 0 THEN NotFound
     ELSE IF q.isUsed = "true" THEN NotUnused("used")
     ELSE Valid(q)

Next ==
  \/ Tick
  \/ \E u \in UserIds : QrCodesPost(u)
  \/ \E u \in UserIds : ValidatePost(u)
  \/ \E u \in UserIds : ValidateByPassword(u)
  \/ \E u \in UserIds : ValidateByCode(u)
  \/ \E u \in UserIds : ValidateMarkExpired(u)
  \/ \E u \in UserIds : ValidateGetUser(u)
  \/ \E u \in UserIds : AccessLogsPost(u)
  \/ \E u \in UserIds : AccessLogsUpdate(u)
  \/ \E u \in UserIds : AccessLogsInsert(u)

Spec == Init /\ [][Next]_vars

(* ------------- issue and validate around the twelfth hour -------------- *)
\* the clock advances to one second short of twelve hours later, or one past
TickAroundTwelveHours ==
  /\ ticks < MaxTicks
  /\ \E d \in {TwelveHours - 1, TwelveHours + 1} : now' = now + d
  /\ ticks' = ticks + 1
  /\ res' = NoRes
  /\ UNCHANGED <<gen, sessions, users, qrCodes, accessLogs, nreq, pc, req, qrCode>>

NextAroundTwelveHours ==
  \/ TickAroundTwelveHours
  \/ \E u \in UserIds : QrCodesPost(u)
  \/ \E u \in UserIds : ValidatePost(u)
  \/ \E u \in UserIds : ValidateByPassword(u)
  \/ \E u \in UserIds : ValidateByCode(u)
  \/ \E u \in UserIds : ValidateMarkExpired(u)
  \/ \E u \in UserIds : ValidateGetUser(u)

SpecAroundTwelveHours == Init /\ [][NextAroundTwelveHours]_vars

(* --------------------------- isAuthenticated --------------------------- *)
\* 7 days, in seconds: expiresIn of the tokens generateJWT signs
SevenDays == 604800

\* the lifetime the identity provider gives its tokens, in seconds
OidcTokenTtl == 3600

\* process.env.JWT_SECRET
JwtSecret == "JWT_SECRET"

\* jwt.sign({id, username, role}, secret, {expiresIn: '7d'}) at time iat
generateJWT(userId, username, role, iat) ==
  [id |-> userId, username |-> username, role |-> role,
   exp |-> iat + SevenDays, secret |-> JwtSecret]

\* jwt.verify: the signature is of the secret and the token has not expired
jwtVerify(token, secret) == token.secret = secret /\ now < token.exp

\* a token for u that something else than the server has signed
ForgedToken(u) ==
  [generateJWT(u, u, "administrador", now) EXCEPT !.secret = "another secret"]

\* the tokens caller u may present: the one of a local login at time 0, if u has
\* an account, and a forged one
HeldTokens(u) ==
  (IF u \in DOMAIN users THEN {generateJWT(u, u, users[u].role, 0)} ELSE {})
    \cup {ForgedToken(u)}

\* the Authorization headers caller u may send: none, a bearer token, or a
\* header of another scheme
Headers(u) ==
  {<<>>, <<"Basic ", ForgedToken(u)>>}
    \cup {<<"Bearer ", token>> : token \in HeldTokens(u)}

\* String.prototype.startsWith, of a header that is a scheme and a token
startsWith(authHeader, scheme) == authHeader[1] = scheme

\* authHeader.substring(7)
substring7(authHeader) == authHeader[2]

\* a bearer header counts only when its token is verified
isVerifiedBearer(authHeader) ==
  /\ authHeader # <<>>
  /\ startsWith(authHeader, "Bearer ")
  /\ jwtVerify(substring7(authHeader), JwtSecret)

\* authHeader && authHeader.startsWith('Bearer ')
isBearer(authHeader) == authHeader # <<>> /\ startsWith(authHeader, "Bearer ")

Unauthorized == Json(401, "Unauthorized")

\* the passport user takes the tokens of a response, and keeps an expiry it has
updateUserSessionTokens(user, tokens) ==
  [user EXCEPT !.sub = tokens.claims.sub,
               !.refresh_token = tokens.refresh_token,
               !.expires_at = IF user.expires_at = 0 THEN tokens.claims.exp
                              ELSE user.expires_at]

\* updateUserSession: the passport user takes the claims and tokens of a response
updateUserSession(user, tokens) ==
  [user EXCEPT !.sub = tokens.claims.sub,
               !.refresh_token = tokens.refresh_token,
               !.expires_at = tokens.claims.exp]

\* the token responses the identity provider may give for sub, with or without
\* a refresh token
TokenResponses(sub) ==
  { [claims |-> [sub |-> sub, exp |-> now + OidcTokenTtl], refresh_token |-> r] :
      r \in BOOLEAN }

\* insert into users ... on conflict (id) do update: role is set on insert only
upsertUser(claims) ==
  [u \in DOMAIN users \cup {claims.sub} |->
     IF u \in DOMAIN users THEN [users[u] EXCEPT !.firstName = claims.sub]
     ELSE [id |-> claims.sub, role |-> "vecino", firstName |-> claims.sub,
           username |-> "", passwordHash |-> NoHash]]

\* GET /api/callback: the strategy's verify, up to its await of upsertUser
CallbackGet(u) ==
  /\ begin(u)
  /\ \E tokens \in TokenResponses(u) :
       /\ users' = upsertUser(tokens.claims)
       /\ await(u, [NoReq EXCEPT !.route = "GET /api/callback",
                                 !.user = updateUserSession(NoSessionUser, tokens)],
                "verified", NoQrCode)
  /\ UNCHANGED <<gen, sessions, qrCodes, accessLogs, now, ticks>>

\* verified(null, user): the session is established and the caller redirected
CallbackVerified(u) ==
  /\ pc[u] = "verified"
  /\ sessions' = [sessions EXCEPT ![u] = req[u].user]
  /\ respond(u, "GET /api/callback", Json(302, "/role-selection"))
  /\ UNCHANGED <<gen, users, qrCodes, accessLogs, now, ticks, nreq>>

AuthUser == "GET /api/auth/user"

\* a request for GET /api/auth/user arrives, with the caller's session (cookie)
AuthUserGet(u) ==
  /\ begin(u)
  /\ \E authHeader \in Headers(u) :
       await(u, [NoReq EXCEPT !.route = AuthUser,
                             !.authorization = authHeader,
                             !.user = sessions[u]],
             "isAuthenticated", NoQrCode)
  /\ UNCHANGED <<gen, sessions, users, qrCodes, accessLogs, now, ticks>>

\* the middleware, from its start to its response, its next() or its await
isAuthenticated(u) ==
  /\ pc[u] = "isAuthenticated"
  /\ LET authHeader == req[u].authorization
         user == req[u].user
     IN IF isBearer(authHeader)
          THEN LET decoded == substring7(authHeader)
               IN IF jwtVerify(decoded, JwtSecret)
                    THEN await(u, [req[u] EXCEPT
                                     !.user = [NoSessionUser EXCEPT
                                                 !.id = decoded.id,
                                                 !.role = decoded.role]],
                               "next", NoQrCode)
                    ELSE respond(u, req[u].route, Unauthorized)
        ELSE IF user = NoSessionUser \/ (user.expires_at = 0 /\ user.id = "")
          THEN respond(u, req[u].route, Unauthorized)
        ELSE IF user.expires_at = 0 /\ user.id # ""
          THEN await(u, req[u], "next", NoQrCode)
        ELSE IF now <= user.expires_at
          THEN await(u, req[u], "next", NoQrCode)
        ELSE IF ~user.refresh_token
          THEN respond(u, req[u].route, Unauthorized)
        ELSE await(u, req[u], "refreshTokenGrant", NoQrCode)
  /\ UNCHANGED <<gen, sessions, users, qrCodes, accessLogs, now, ticks, nreq>>

\* the refresh token grant succeeds and the session is updated, or it fails
isAuthenticatedRefresh(u) ==
  /\ pc[u] = "refreshTokenGrant"
  /\ \/ \E tokenResponse \in TokenResponses(req[u].user.sub) :
          LET user == updateUserSession(req[u].user, tokenResponse)
          IN /\ sessions' = [sessions EXCEPT ![u] = user]
             /\ await(u, [req[u] EXCEPT !.user = user], "next", NoQrCode)
     \/ /\ sessions' = sessions
        /\ respond(u, req[u].route, Unauthorized)
  /\ UNCHANGED <<gen, users, qrCodes, accessLogs, now, ticks, nreq>>

\* the handler of GET /api/auth/user, after next()
AuthUserNext(u) ==
  /\ pc[u] = "next"
  /\ req[u].route = AuthUser
  /\ LET userId == IF req[u].user.sub # "" THEN req[u].user.sub ELSE req[u].user.id
     IN respond(u, AuthUser, [Json(200, "") EXCEPT !.account = getUser(userId)])
  /\ UNCHANGED <<gen, sessions, users, qrCodes, accessLogs, now, ticks, nreq>>

\* the clock advances past the lifetime of a provider's token, or of a bearer token
TickAuthenticated ==
  /\ ticks < MaxTicks
  /\ \E d \in {OidcTokenTtl + 1, SevenDays} : now' = now + d
  /\ ticks' = ticks + 1
  /\ res' = NoRes
  /\ UNCHANGED <<gen, sessions, users, qrCodes, accessLogs, nreq, pc, req, qrCode>>

\* the callers that log in: one who has an account, and one who has none yet
LoginIds == {"vecino1", "vecino2"}

NextAuthenticated ==
  \/ TickAuthenticated
  \/ \E u \in LoginIds : CallbackGet(u)
  \/ \E u \in LoginIds : CallbackVerified(u)
  \/ \E u \in LoginIds : AuthUserGet(u)
  \/ \E u \in LoginIds : isAuthenticated(u)
  \/ \E u \in LoginIds : isAuthenticatedRefresh(u)
  \/ \E u \in LoginIds : AuthUserNext(u)

SpecAuthenticated == Init /\ [][NextAuthenticated]_vars

(* -------------------- two residents and their lists -------------------- *)
InitTwoResidents ==
  /\ users = TwoResidents
  /\ qrCodes = <<>>
  /\ accessLogs = <<>>
  /\ now = 0
  /\ ticks = 0
  /\ nreq = 0
  /\ pc = [u \in UserIds |-> "idle"]
  /\ req = [u \in UserIds |-> NoReq]
  /\ qrCode = [u \in UserIds |-> NoQrCode]
  /\ res = NoRes
  /\ gen = NoGen
  /\ sessions = [u \in UserIds |-> NoSessionUser]

NextTwoResidents ==
  \/ Tick
  \/ \E u \in UserIds : QrCodesPost(u)
  \/ \E u \in UserIds : QrCodesGet(u)

SpecTwoResidents == InitTwoResidents /\ [][NextTwoResidents]_vars

(* ----------------------- the password generator ----------------------- *)
NextGenerate ==
  /\ \/ GenerateCall
     \/ GenerateLetter
     \/ GenerateHyphen
     \/ GenerateNumber
     \/ GenerateReturn
  /\ UNCHANGED <<users, qrCodes, accessLogs, now, ticks, nreq, pc, req, qrCode,
                 res, sessions>>

SpecGenerate == Init /\ [][NextGenerate]_vars

(* ------------------------ issue, of any client ------------------------- *)
NextAnyBody == \E u \in UserIds : QrCodesPostAnyBody(u)

SpecAnyBody == Init /\ [][NextAnyBody]_vars

(* ------------------------ POST /api/login-local ------------------------ *)
LoginLocal == "POST /api/login-local"

\* select ... where username = username: the row, or undefined
getUserByUsername(username) ==
  IF \E id \in DOMAIN users : users[id].username = username
    THEN users[CHOOSE id \in DOMAIN users : users[id].username = username]
    ELSE NoUser

\* the handles and passwords a client may submit: of an account or of none, the
\* right one or another
BodyUsernames == {"vecino1", "nadie"}

BodyPasswords == {InitialPassword, <<"s", "2">>}

\* the verify function of the LocalStrategy: done(null, user) or
\* done(null, false, {message})
verify(username, password) ==
  LET user == getUserByUsername(username)
  IN IF user = NoUser
       THEN [user |-> NoUser, message |-> "Usuario no encontrado"]
     ELSE IF user.passwordHash = NoHash
       THEN [user |-> NoUser, message |-> "Usuario no valido"]
     ELSE IF sha256(password) # user.passwordHash
       THEN [user |-> NoUser, message |-> "Contrasena incorrecta"]
     ELSE [user |-> user, message |-> ""]

LoginLocalPost(u) ==
  /\ begin(u)
  /\ \E username \in BodyUsernames, password \in BodyPasswords :
       await(u, [NoReq EXCEPT !.route = LoginLocal,
                             !.username = username,
                             !.password = password],
             "getUserByUsername", NoQrCode)
  /\ UNCHANGED <<gen, sessions, users, qrCodes, accessLogs, now, ticks>>

\* storage.getUserByUsername returns and the callback of passport.authenticate
\* answers, or it throws and the callback answers 500
LoginLocalVerify(u) ==
  /\ pc[u] = "getUserByUsername"
  /\ \E storeFails \in BOOLEAN :
       IF storeFails
         THEN respond(u, LoginLocal, Json(500, "Error during authentication"))
         ELSE LET done == verify(req[u].username, req[u].password)
              IN IF done.user = NoUser
                   THEN respond(u, LoginLocal, Json(401, done.message))
                   ELSE respond(u, LoginLocal,
                                [Json(200, "") EXCEPT
                                   !.account = done.user,
                                   !.token = generateJWT(done.user.id,
                                                         done.user.username,
                                                         done.user.role, now)])
  /\ UNCHANGED <<gen, sessions, users, qrCodes, accessLogs, now, ticks, nreq>>

NextLogin ==
  \/ Tick
  \/ \E u \in UserIds : LoginLocalPost(u)
  \/ \E u \in UserIds : LoginLocalVerify(u)

SpecLogin == Init /\ [][NextLogin]_vars

(* ------------- the protected routes and their role middleware ------------- *)
Roles == {"vecino", "guardia", "administrador"}

AccessLogsList == "GET /api/access-logs"

AdminStats == "GET /api/admin/stats"

\* the routes registered with isAuthenticated and a role middleware
ProtectedRoutes ==
  {"POST /api/qr-codes", "GET /api/qr-codes", Validate, AccessLogs,
   AccessLogsList, AdminStats}

\* the statistics route lets a guard pass too
rolesOfGuardAsAdmin(route) ==
  CASE route \in {"POST /api/qr-codes", "GET /api/qr-codes"} -> {"vecino", "administrador"}
    [] route \in {Validate, AccessLogs} -> {"guardia", "administrador"}
    [] route = AccessLogsList -> {"administrador"}
    [] OTHER -> {"guardia", "administrador"}

\* the roles that the role middleware of a route lets pass: isVecinoOrAdmin,
\* isGuardOrAdmin or isAdmin
rolesOf(route) ==
  CASE route \in {"POST /api/qr-codes", "GET /api/qr-codes"} -> {"vecino", "administrador"}
    [] route \in {Validate, AccessLogs} -> {"guardia", "administrador"}
    [] OTHER -> {"administrador"}

\* the answer tells whether the store holds a credential
ForbiddenOrNotFound(route) ==
  IF qrCodes = <<>> THEN Json(404, "Not found")
  ELSE Json(403, "Forbidden: Admin access required")

\* res.status(403).json of the role middleware of a route
Forbidden(route) ==
  Json(403,
       CASE route \in {"POST /api/qr-codes", "GET /api/qr-codes"} ->
              "Forbidden: Resident or Admin access required"
         [] route \in {Validate, AccessLogs} ->
              "Forbidden: Guard or Admin access required"
         [] OTHER -> "Forbidden: Admin access required")

\* the role is the one the bearer token claims, when the request has one
roleClaimed(user) ==
  IF user.role # "" THEN user.role ELSE getUser(userIdOf(user)).role

\* (await storage.getUser(userId))?.role
roleOf(user) == getUser(userIdOf(user)).role

\* the bearer tokens that the secret signs for caller u: a token keeps the role
\* its account had at login whatever role the account has now, and a token signed
\* with the fallback secret claims what its maker wants
SignedTokens(u) == {generateJWT(u, u, role, 0) : role \in {"guardia", "administrador"}}

\* the Authorization headers of a request to a protected route
ProtectedHeaders(u) ==
  {<<>>, <<"Bearer ", ForgedToken(u)>>}
    \cup {<<"Bearer ", token>> : token \in SignedTokens(u)}

\* the bodies of a request to a route
ProtectedBodies(route) ==
  IF route = Validate
    THEN {[password |-> b.password, code |-> b.code, qrCodeId |-> 0] :
            b \in {b \in ValidateBodies : b.code \notin CodeInputs}}
  ELSE IF route = AccessLogs
    THEN {[password |-> NoString, code |-> NoString, qrCodeId |-> id] :
            id \in BodyQrCodeIds}
  ELSE {[password |-> NoString, code |-> NoString, qrCodeId |-> 0]}

\* the issue requests that have not been answered
issuing == {v \in UserIds : req[v].route = "POST /api/qr-codes"}

\* a request for a protected route arrives, with the caller's session (cookie)
ProtectedArrives(u) ==
  /\ begin(u)
  /\ \E route \in ProtectedRoutes, authHeader \in ProtectedHeaders(u) :
       /\ route = "POST /api/qr-codes"
            => Len(qrCodes) + Cardinality(issuing) < MaxQrCodes
       /\ \E b \in ProtectedBodies(route) :
            await(u, [NoReq EXCEPT !.route = route,
                                  !.password = b.password,
                                  !.code = b.code,
                                  !.qrCodeId = b.qrCodeId,
                                  !.authorization = authHeader,
                                  !.user = sessions[u]],
                  "isAuthenticated", NoQrCode)
  /\ UNCHANGED <<gen, sessions, users, qrCodes, accessLogs, now, ticks>>

\* the role middleware, after the next() of isAuthenticated: storage.getUser
\* returns and the role decides, or storage.getUser throws and the promise of the
\* middleware is rejected, which nothing handles
RoleMiddleware(u) ==
  /\ pc[u] = "next"
  /\ req[u].route \in ProtectedRoutes
  /\ IF userIdOf(req[u].user) = ""
       THEN respond(u, req[u].route, Unauthorized)
       ELSE \/ IF roleOf(req[u].user) \in rolesOf(req[u].route)
                 THEN await(u, req[u], "handler", NoQrCode)
                 ELSE respond(u, req[u].route, Forbidden(req[u].route))
            \/ await(u, req[u], "unhandledRejection", NoQrCode)
  /\ UNCHANGED <<gen, sessions, users, qrCodes, accessLogs, now, ticks, nreq>>

\* the handlers, after the next() of the role middleware
QrCodesPostNext(u) ==
  /\ pc[u] = "handler"
  /\ req[u].route = "POST /api/qr-codes"
  /\ \E n \in VisitorNames, e \in BodyExpiresAt,
        code \in GeneratedCodes, accessPassword \in GeneratedPasswords :
       QrCodesPostHandler(u, [visitorName |-> Present(n),
                              visitorType |-> Present("visita"),
                              expiresAt |-> e],
                          code, accessPassword)
  /\ UNCHANGED <<gen, sessions, users, accessLogs, now, ticks, nreq>>

QrCodesGetNext(u) ==
  /\ pc[u] = "handler"
  /\ req[u].route = "GET /api/qr-codes"
  /\ QrCodesGetHandler(u)
  /\ UNCHANGED <<gen, sessions, users, qrCodes, accessLogs, now, ticks, nreq>>

ValidateNext(u) ==
  /\ pc[u] = "handler"
  /\ req[u].route = Validate
  /\ ValidateHandler(u, req[u])
  /\ UNCHANGED <<gen, sessions, users, qrCodes, accessLogs, now, ticks, nreq>>

AccessLogsNext(u) ==
  /\ pc[u] = "handler"
  /\ req[u].route = AccessLogs
  /\ AccessLogsHandler(u, req[u])
  /\ UNCHANGED <<gen, sessions, users, qrCodes, accessLogs, now, ticks, nreq>>

\* select ... order by accessed_at desc, of the last fifteen days: the clock of
\* the specification that has this route stands still
getAllAccessLogs == [k \in DOMAIN accessLogs |-> accessLogs[Len(accessLogs) + 1 - k]]

\* the four counts, the clock standing still
getDashboardStats ==
  [accessesToday |-> Len(accessLogs),
   activeCodes |-> Cardinality({i \in QrIds : qrCodes[i].isUsed = "unused"}),
   codesUsedThisWeek |->
     Cardinality({i \in QrIds : /\ qrCodes[i].isUsed = "used"
                                /\ qrCodes[i].usedAt # NoTime
                                /\ qrCodes[i].usedAt >= now - SevenDays}),
   totalAccesses |-> Len(accessLogs)]

AccessLogsGet(u) ==
  /\ pc[u] = "handler"
  /\ req[u].route = AccessLogsList
  /\ \E storeFails \in BOOLEAN :
       IF storeFails
         THEN respond(u, AccessLogsList, Json(500, "Failed to fetch access logs"))
         ELSE respond(u, AccessLogsList, [Json(200, "") EXCEPT !.list = getAllAccessLogs])
  /\ UNCHANGED <<gen, sessions, users, qrCodes, accessLogs, now, ticks, nreq>>

AdminStatsGet(u) ==
  /\ pc[u] = "handler"
  /\ req[u].route = AdminStats
  /\ \E storeFails \in BOOLEAN :
       IF storeFails
         THEN respond(u, AdminStats, Json(500, "Failed to fetch stats"))
         ELSE respond(u, AdminStats, [Json(200, "") EXCEPT !.stats = getDashboardStats])
  /\ UNCHANGED <<gen, sessions, users, qrCodes, accessLogs, now, ticks, nreq>>

(* ----------------------- POST /api/auth/set-role ----------------------- *)
SetRole == "POST /api/auth/set-role"

\* what a body may carry as role
BodyRoles == Roles \cup {"otro"}

\* update users set role = role where id = userId
updateUserRole(userId, role) ==
  [id \in DOMAIN users |->
     IF id = userId THEN [users[id] EXCEPT !.role = role] ELSE users[id]]

SetRolePost(u) ==
  /\ begin(u)
  /\ \E role \in BodyRoles, authHeader \in ProtectedHeaders(u) :
       await(u, [NoReq EXCEPT !.route = SetRole,
                             !.role = role,
                             !.authorization = authHeader,
                             !.user = sessions[u]],
             "isAuthenticated", NoQrCode)
  /\ UNCHANGED <<gen, sessions, users, qrCodes, accessLogs, now, ticks>>

\* the handler, after the next() of isAuthenticated
SetRoleNext(u) ==
  /\ pc[u] = "next"
  /\ req[u].route = SetRole
  /\ IF req[u].role \notin Roles
       THEN /\ users' = users
            /\ respond(u, SetRole, Json(400, "Invalid role"))
       ELSE \E storeFails \in BOOLEAN :
              IF storeFails
                THEN /\ users' = users
                     /\ respond(u, SetRole, Json(500, "Failed to set user role"))
                ELSE LET userId == userIdOf(req[u].user)
                     IN /\ users' = updateUserRole(userId, req[u].role)
                        /\ respond(u, SetRole,
                                   [Json(200, "") EXCEPT
                                      !.account =
                                        IF userId \in DOMAIN users
                                          THEN [users[userId] EXCEPT !.role = req[u].role]
                                          ELSE NoUser])
  /\ UNCHANGED <<gen, sessions, qrCodes, accessLogs, now, ticks, nreq>>

\* the callers of the protected routes: a guard, and one who has no account
\* until they log in with the identity provider
ProtectedCallers == {"guardia1", "vecino2"}

NextProtected ==
  \/ \E u \in ProtectedCallers : CallbackGet(u)
  \/ \E u \in ProtectedCallers : CallbackVerified(u)
  \/ \E u \in ProtectedCallers : ProtectedArrives(u)
  \/ \E u \in ProtectedCallers : SetRolePost(u)
  \/ \E u \in ProtectedCallers : isAuthenticated(u)
  \/ \E u \in ProtectedCallers : RoleMiddleware(u)
  \/ \E u \in ProtectedCallers : SetRoleNext(u)
  \/ \E u \in ProtectedCallers : QrCodesPostNext(u)
  \/ \E u \in ProtectedCallers : QrCodesGetNext(u)
  \/ \E u \in ProtectedCallers : ValidateNext(u)
  \/ \E u \in ProtectedCallers : ValidateByPassword(u)
  \/ \E u \in ProtectedCallers : ValidateByCode(u)
  \/ \E u \in ProtectedCallers : ValidateGetUser(u)
  \/ \E u \in ProtectedCallers : AccessLogsNext(u)
  \/ \E u \in ProtectedCallers : AccessLogsUpdate(u)
  \/ \E u \in ProtectedCallers : AccessLogsInsert(u)
  \/ \E u \in ProtectedCallers : AccessLogsGet(u)
  \/ \E u \in ProtectedCallers : AdminStatsGet(u)

SpecProtected == Init /\ [][NextProtected]_vars

(* --------------------- confirm requests of any body --------------------- *)
NextConfirm ==
  \/ \E u \in UserIds : QrCodesPost(u)
  \/ \E u \in UserIds : AccessLogsPostAnyBody(u)
  \/ \E u \in UserIds : AccessLogsUpdate(u)
  \/ \E u \in UserIds : AccessLogsInsert(u)

SpecConfirm == Init /\ [][NextConfirm]_vars

(* ------------------------------- claims ------------------------------- *)
\* the access events that reference credential id
eventsOf(id) == {k \in DOMAIN accessLogs : accessLogs[k].qrCodeId = id}

\* caller u takes this step
stepOf(u) == pc'[u] # pc[u] \/ res'.user = u

\* caller u's confirm request is between its two writes, or before them
confirming(u) == pc[u] \in {"updateQrCodeUsed", "createAccessLog"}

\* the row a validate handler at one of its lookups finds
found(u) ==
  IF pc[u] = "getQrCodeByPassword"
    THEN getQrCodeByPassword(toUpperCase(trim(req[u].password)))
    ELSE getQrCodeByCode(trim(req[u].code))

\* C1: of the confirm requests on one credential that was unused and within its
\* deadline when the first of them started, exactly one succeeds: a confirm
\* request that succeeds (200, one access event appended) on a credential within
\* its deadline finds no access event of an earlier success on that credential.
C1_ExactlyOneConfirmSucceeds ==
  [][\A u \in UserIds :
       ( /\ pc[u] = "createAccessLog"
         /\ res'.user = u
         /\ res'.status = 200
         /\ ~isExpired(qrCodes[req[u].qrCodeId]) )
       => eventsOf(req[u].qrCodeId) = {}]_vars

\* C2: whenever no confirm request is between its two writes, a credential is
\* "used" if and only if exactly one access event references it, and a credential
\* that is unused or expired has none.
C2_UsedIffOneAccessEvent ==
  (\A u \in UserIds : ~confirming(u))
    => \A i \in QrIds :
         /\ qrCodes[i].isUsed = "used" => Cardinality(eventsOf(i)) = 1
         /\ qrCodes[i].isUsed # "used" => eventsOf(i) = {}

\* C3: in every step, a credential's state changes only from "unused" to "used"
\* or from "unused" to "expired".
C3_StateTransitionsMonotonic ==
  [][\A i \in QrIds :
       qrCodes'[i].isUsed # qrCodes[i].isUsed
         => /\ qrCodes[i].isUsed = "unused"
            /\ qrCodes'[i].isUsed \in {"used", "expired"}]_vars

\* C4: a confirm request of a guard on a credential that the same guard's earlier
\* confirm request has consumed changes nothing of the credential (state,
\* consumed-at), appends no access event and does not succeed.
C4_SecondConfirmAlreadyConsumed ==
  [][\A u \in UserIds :
       ( /\ confirming(u)
         /\ stepOf(u)
         /\ \E k \in eventsOf(req[u].qrCodeId) : accessLogs[k].guardId = u )
       => /\ qrCodes' = qrCodes
          /\ accessLogs' = accessLogs
          /\ res'.user = u => res'.status # 200]_vars

\* C5: a confirm request on a credential whose deadline is over does not move the
\* credential to "used", appends no access event and does not succeed.
C5_ConfirmAfterDeadlineFails ==
  [][\A u \in UserIds :
       ( /\ confirming(u)
         /\ stepOf(u)
         /\ qrCodeExists(req[u].qrCodeId)
         /\ isExpired(qrCodes[req[u].qrCodeId]) )
       => /\ qrCodes'[req[u].qrCodeId].isUsed = qrCodes[req[u].qrCodeId].isUsed
          /\ accessLogs' = accessLogs
          /\ res'.user = u => res'.status # 200]_vars

\* C6: the expiry write of validate changes no credential whose state is no
\* longer "unused" when the write is made.
C6_ExpiryWriteConditional ==
  [][\A u \in UserIds :
       ( /\ pc[u] = "markQrCodeAsExpired"
         /\ stepOf(u)
         /\ qrCodes[qrCode[u].id].isUsed # "unused" )
       => qrCodes' = qrCodes]_vars

\* C7: a validate request, of either handler, answers valid:true only for a row
\* it has read in state "unused".
C7_NeverValidUnlessUnused ==
  [][\A u \in UserIds :
       (pc[u] = "getUser" /\ res'.user = u /\ res'.valid)
         => qrCode[u].isUsed = "unused"]_vars

C10_DeadlineIsCreationPlus12h ==
  \A i \in QrIds : qrCodes[i].expiresAt = qrCodes[i].createdAt + TwelveHours

\* C11: a validate request that finds an unused credential one second before
\* twelve hours after its creation passes the expiry check and goes on to answer
\* valid:true (its only remaining step); one that finds it one second after twelve
\* hours after its creation goes on to the expiry write and the expired answer.
C11_BoundaryAroundTwelveHours ==
  [][\A u \in UserIds :
       ( /\ pc[u] \in {"getQrCodeByPassword", "getQrCodeByCode"}
         /\ req[u].route = Validate
         /\ stepOf(u)
         /\ found(u).id # 0
         /\ found(u).isUsed = "unused" )
       => /\ now = found(u).createdAt + TwelveHours - 1 => pc'[u] = "getUser"
          /\ now = found(u).createdAt + TwelveHours + 1
               => pc'[u] = "markQrCodeAsExpired"]_vars

\* C12: right after a successful issue the new credential is stored "unused", and
\* a validate request by the password the issue has returned, handled in that
\* state by either validate handler, answers valid:true with the visitor name of
\* the issue.
C12_IssueThenValidateRoundTrip ==
  (res.route = "POST /api/qr-codes" /\ res.status = 200)
    => /\ qrCodes[res.id].isUsed = "unused"
       /\ \A r \in { validateResponse([password |-> res.accessPassword,
                                        code |-> NoString]),
                      validateResponseRoutesTs([password |-> res.accessPassword,
                                                code |-> NoString]) } :
            /\ r.valid
            /\ r.visitorName = res.visitorName

\* C13: a validate request with a password goes to the lookup by password, of the
\* password trimmed and uppercased; when that finds a row the handler goes on with
\* that row and makes no lookup by token; when it finds none the handler looks up
\* the trimmed password, in its original case, as a token.  A validate request with
\* a token only goes to the lookup by token, and goes on with the row of that
\* token or answers not found: no row is found by its password.
C13_ValidateLookupOrder ==
  [][\A u \in UserIds :
       /\ ( /\ pc[u] = "idle"
            /\ pc'[u] # "idle"
            /\ req'[u].route \in {Validate, ValidateRoutesTs} )
          => IF req'[u].password # NoString
               THEN pc'[u] = "getQrCodeByPassword"
               ELSE pc'[u] = "getQrCodeByCode" /\ req'[u].code # NoString
       /\ (pc[u] = "getQrCodeByPassword" /\ stepOf(u))
          => LET passwordStr == trim(req[u].password)
                 q == getQrCodeByPassword(toUpperCase(passwordStr))
             IN IF q.id # 0
                  THEN /\ pc'[u] # "getQrCodeByCode"
                       /\ pc'[u] # "idle" => qrCode'[u] = q
                       /\ pc'[u] = "idle"
                            => res' # [NotFound EXCEPT !.user = u,
                                                       !.route = req[u].route]
                  ELSE /\ pc'[u] = "getQrCodeByCode"
                       /\ req'[u].password = req[u].password
                       /\ req'[u].code = passwordStr
       /\ (pc[u] = "getQrCodeByCode" /\ stepOf(u))
          => LET q == getQrCodeByCode(trim(req[u].code))
             IN IF q.id # 0
                  THEN pc'[u] # "idle" => qrCode'[u] = q
                  ELSE res' = [NotFound EXCEPT !.user = u, !.route = req[u].route]]_vars

\* C14: a validate request proceeds to a lookup only with a password or a token;
\* with neither it is answered on arrival, with status 400 and "Password or code
\* is required", and no credential and no access event changes.  A lookup of the
\* request that finds no row changes no credential and no access event, and the
\* last of them answers status 200, valid:false, not found.
C14_ValidateMissingInputOrNotFound ==
  [][\A u \in UserIds :
       /\ (pc[u] = "idle" /\ pc'[u] # "idle" /\ req'[u].route = Validate)
          => req'[u].password # NoString \/ req'[u].code # NoString
       /\ (pc[u] = "idle" /\ res'.user = u /\ res'.route = Validate)
          => /\ res'.status = 400
             /\ ~res'.valid
             /\ res'.message = "Password or code is required"
             /\ qrCodes' = qrCodes
             /\ accessLogs' = accessLogs
       /\ ( /\ pc[u] \in {"getQrCodeByPassword", "getQrCodeByCode"}
            /\ req[u].route = Validate
            /\ stepOf(u)
            /\ found(u).id = 0 )
          => /\ qrCodes' = qrCodes
             /\ accessLogs' = accessLogs
             /\ IF pc[u] = "getQrCodeByPassword"
                  THEN pc'[u] = "getQrCodeByCode"
                  ELSE /\ res'.user = u
                       /\ res'.status = 200
                       /\ ~res'.valid
                       /\ res'.message = "Contrasena o codigo no encontrado"]_vars

\* C14, its case: with credentials in the store, a validate request has found no
\* row and has answered not found
C14_Witness ==
  /\ res.route = Validate
  /\ res.message = "Contrasena o codigo no encontrado"
  /\ qrCodes # <<>>

\* C15: every stored credential has a non-empty visitor name and one of the three
\* visitor categories (an issue with another name or category stores nothing).
C15_StoredCredentialsAreValidated ==
  \A i \in QrIds :
    /\ qrCodes[i].visitorName # ""
    /\ qrCodes[i].visitorType \in VisitorTypes

\* C16: no two stored credentials have the same password, and no two the same
\* token.
C16_PasswordsAndTokensUnique ==
  \A i, j \in QrIds :
    i # j => /\ qrCodes[i].accessPassword # qrCodes[j].accessPassword
             /\ qrCodes[i].code # qrCodes[j].code

\* C17: an issue whose insert the store rejects for a value in use generates
\* again and retries: the request is not answered with a failure in the step of
\* its first insert (a failure comes only after the last of several attempts).
C17_IssueRetriesOnCollision ==
  [][\A u \in UserIds :
       (pc[u] = "idle" /\ res'.user = u /\ res'.route = "POST /api/qr-codes")
         => res'.status # 500]_vars

\* C18: every password generateAccessPassword returns is four characters of A-Z,
\* a hyphen, and four characters of 0-9.
C18_GeneratedPasswordFormat ==
  gen.pc = "return"
    => /\ Len(gen.password) = 9
       /\ \A k \in 1..4 : \E l \in DOMAIN letters : gen.password[k] = letters[l]
       /\ gen.password[5] = "-"
       /\ \A k \in 6..9 : \E n \in DOMAIN numbers : gen.password[k] = numbers[n]

\* C18, its case: the generator has returned, its random choices having been the
\* largest for the first letter and the last number, and the smallest for others
C18_Witness ==
  /\ gen.pc = "return"
  /\ gen.password[1] = "Z"
  /\ gen.password[2] = "A"
  /\ gen.password[8] = "0"
  /\ gen.password[9] = "9"

\* C19: the list GET /api/qr-codes answers to caller u holds every stored
\* credential that u has issued, each once, and no credential of another issuer;
\* a credential comes before every credential created earlier; and the request
\* changes no user, no credential and no access event.
C19_ListForIssuer ==
  [][\A u \in UserIds :
       (res'.user = u /\ res'.route = "GET /api/qr-codes")
         => /\ res'.status = 200
            /\ {res'.list[k] : k \in DOMAIN res'.list}
                 = {qrCodes[i] : i \in {i \in QrIds : qrCodes[i].createdById = u}}
            /\ \A k, l \in DOMAIN res'.list :
                 /\ k # l => res'.list[k].id # res'.list[l].id
                 /\ res'.list[k].createdAt > res'.list[l].createdAt => k < l
            /\ users' = users
            /\ qrCodes' = qrCodes
            /\ accessLogs' = accessLogs]_vars

\* C19, its case: a resident has got the list of their one credential while the
\* store holds a credential of the other resident too
C19_Witness ==
  /\ res.route = "GET /api/qr-codes"
  /\ Len(res.list) = 1
  /\ Len(qrCodes) = 2

\* C20: when the middleware handles a request whose Authorization header begins
\* with "Bearer ", it neither refreshes nor changes a session; if the token fails
\* verification the request is answered 401 Unauthorized, whatever session it
\* carries; if the token is verified the identity of the request is the token's.
C20_BearerNeverFallsBackToSession ==
  [][\A u \in UserIds :
       ( /\ pc[u] = "isAuthenticated"
         /\ stepOf(u)
         /\ req[u].authorization # <<>>
         /\ req[u].authorization[1] = "Bearer " )
       => /\ sessions' = sessions
          /\ pc'[u] # "refreshTokenGrant"
          /\ IF jwtVerify(req[u].authorization[2], JwtSecret)
               THEN /\ pc'[u] = "next"
                    /\ req'[u].user.sub = ""
                    /\ req'[u].user.id = req[u].authorization[2].id
               ELSE /\ res'.user = u
                    /\ res'.status = 401
                    /\ res'.message = "Unauthorized"]_vars

\* C20, its case: a caller who has a session that has not expired has been
\* answered 401 by GET /api/auth/user (the request had a bearer token that failed)
C20_Witness ==
  /\ res.route = AuthUser
  /\ res.status = 401
  /\ sessions[res.user] # NoSessionUser
  /\ now <= sessions[res.user].expires_at
\* C21: when the middleware handles a request that has no bearer header, an
\* identity that has an id and no expiry is passed on as it is; an identity whose
\* expiry has not passed is passed on as it is; one whose expiry has passed is
\* answered 401 Unauthorized when it has no refresh token, and is otherwise passed
\* on only by a refresh that succeeds, which leaves in the session store the
\* identity passed on, with the same subject and an expiry that has not passed; a
\* refresh that fails is answered 401 Unauthorized and changes no session. A
\* request that is answered 401 is over: its handler does not run.
C21_SessionPath ==
  [][\A u \in UserIds :
       /\ ( /\ pc[u] = "isAuthenticated"
            /\ stepOf(u)
            /\ ~isBearer(req[u].authorization)
            /\ req[u].user # NoSessionUser )
          => /\ sessions' = sessions
             /\ IF req[u].user.expires_at = 0
                  THEN req[u].user.id # ""
                         => pc'[u] = "next" /\ req'[u].user = req[u].user
                ELSE IF now <= req[u].user.expires_at
                  THEN pc'[u] = "next" /\ req'[u].user = req[u].user
                ELSE IF req[u].user.refresh_token
                  THEN pc'[u] = "refreshTokenGrant" /\ res' = NoRes
                ELSE /\ res'.user = u
                     /\ res'.status = 401
                     /\ res'.message = "Unauthorized"
                     /\ pc'[u] = "idle"
       /\ (pc[u] = "refreshTokenGrant" /\ stepOf(u))
          => \/ /\ pc'[u] = "next"
                /\ sessions'[u] = req'[u].user
                /\ sessions'[u].sub = sessions[u].sub
                /\ sessions'[u].expires_at > sessions[u].expires_at
                /\ now <= sessions'[u].expires_at
                /\ \A v \in UserIds \ {u} : sessions'[v] = sessions[v]
             \/ /\ res'.user = u
                /\ res'.status = 401
                /\ res'.message = "Unauthorized"
                /\ pc'[u] = "idle"
                /\ sessions' = sessions]_vars

\* C21, its case: a caller whose session had expired has been answered by the
\* handler of GET /api/auth/user, the session having been refreshed in between
C21_Witness ==
  /\ res.route = AuthUser
  /\ res.status = 200
  /\ sessions[res.user].expires_at > OidcTokenTtl
  /\ now > OidcTokenTtl
\* the required roles of the protected operations: resident or administrator to
\* issue and to list one's credentials, guard or administrator to validate and to
\* confirm, administrator to list the access events and to read the statistics
lattice(route) ==
  IF route \in {"POST /api/qr-codes", "GET /api/qr-codes"}
    THEN {"vecino", "administrador"}
  ELSE IF route \in {"POST /api/qr-codes/validate", "POST /api/access-logs"}
    THEN {"guardia", "administrador"}
  ELSE {"administrador"}

\* caller u's request is at the role middleware, which takes its step and the
\* store answers
roleChecked(u) ==
  /\ pc[u] = "next"
  /\ req[u].route \in ProtectedRoutes
  /\ stepOf(u)
  /\ pc'[u] # "unhandledRejection"

rejections(route) ==
  { Json(401, "Unauthorized"),
    Json(403, IF route \in {"POST /api/qr-codes", "GET /api/qr-codes"}
                THEN "Forbidden: Resident or Admin access required"
              ELSE IF route \in {"POST /api/qr-codes/validate", "POST /api/access-logs"}
                THEN "Forbidden: Guard or Admin access required"
              ELSE "Forbidden: Admin access required") }

\* C23: a step of the authentication middleware or of the role middleware on a
\* request for a protected route changes no user, no credential and no access
\* event; when it answers, the request is over without its handler having run,
\* and the answer is one of two that the route alone determines (401
\* Unauthorized, or 403 with the message of the route), whatever the body names
\* and whatever the store holds.
C23_RejectedBeforeHandler ==
  [][\A u \in UserIds :
       ( /\ pc[u] \in {"isAuthenticated", "next"}
         /\ req[u].route \in ProtectedRoutes
         /\ stepOf(u) )
       => /\ users' = users
          /\ qrCodes' = qrCodes
          /\ accessLogs' = accessLogs
          /\ pc'[u] \in {"next", "handler", "idle", "unhandledRejection"}
          /\ res'.user = u
               => /\ pc'[u] = "idle"
                  /\ \E r \in rejections(req[u].route) :
                       res' = [r EXCEPT !.user = u, !.route = req[u].route]]_vars

\* C23, its case: a confirm request has been answered 403 while the store holds a
\* credential
C23_Witness ==
  /\ res.route = AccessLogs
  /\ res.status = 403
  /\ Len(qrCodes) > 0
\* C24: a local login that fails is answered 401 with one message: of two failed
\* logins answered one right after the other, one for a handle of no account and
\* one for a wrong password, the second has the status and the message of the
\* first.
C24_LoginFailuresIndistinguishable ==
  [][( /\ res.route = LoginLocal
       /\ res.status = 401
       /\ res'.route = LoginLocal
       /\ res'.status = 401 )
     => res'.message = res.message]_vars
\* C25: no step changes the role of an account that was created with a password
\* (a local account), and no step changes the role of an account of the identity
\* provider whose role is no longer the one it was created with (its role has
\* been selected once already).
C25_RoleSetAtMostOnce ==
  [][\A id \in DOMAIN users :
       (users[id].passwordHash # NoHash \/ users[id].role # "vecino")
         => users'[id].role = users[id].role]_vars
\* C26: no request for a protected route is left without a step that answers it:
\* when the store fails during the role check the request is answered with an
\* error, it is never held by a promise that was rejected and that nothing handles.
C26_StoreFailureIsAnswered ==
  \A u \in UserIds :
    req[u].route \in ProtectedRoutes => pc[u] # "unhandledRejection"
\* C27: after every step, a credential has a time of use exactly if its state is
\* "used"; and a time of use that is set is never replaced.
C27_UsedAtIffUsed ==
  [][/\ \A i \in DOMAIN qrCodes' :
          qrCodes'[i].usedAt # NoTime <=> qrCodes'[i].isUsed = "used"
     /\ \A i \in DOMAIN qrCodes :
          qrCodes[i].usedAt # NoTime => qrCodes'[i].usedAt = qrCodes[i].usedAt]_vars
\* C28: when the validate handler finds a credential in state "used" whose
\* deadline has passed, it answers that the access has already been used, not
\* that the credential has expired, and it writes nothing.
C28_UsedBeforeExpired ==
  [][\A u \in UserIds :
       ( /\ pc[u] \in {"getQrCodeByPassword", "getQrCodeByCode"}
         /\ req[u].route = Validate
         /\ stepOf(u)
         /\ found(u).isUsed = "used"
         /\ found(u).expiresAt # NoTime
         /\ now > found(u).expiresAt )
       => /\ res'.user = u
          /\ res'.valid = FALSE
          /\ res'.message = "Este acceso ya ha sido utilizado"
          /\ qrCodes' = qrCodes
          /\ accessLogs' = accessLogs]_vars
\* C29: the decision of the role middleware on a request of caller u is fixed by
\* the role that table users holds for u at that step and by the route: the
\* handler runs next exactly if u has an account whose stored role is in the
\* required set, whether the identity came from a bearer token or from a session
\* and whatever role the token claims; a caller without account is answered 403.
C29_DecisionByStoredRole ==
  [][\A u \in UserIds :
       roleChecked(u)
         => /\ userIdOf(req[u].user) = u
            /\ pc'[u] = "handler"
                 <=> (u \in DOMAIN users /\ users[u].role \in lattice(req[u].route))
            /\ u \notin DOMAIN users
                 => (res'.user = u /\ res'.status = 403)]_vars

\* C29, its case: the statistics handler is about to run for an administrator
\* whose bearer token claims the role of a guard
C29_Witness ==
  \E u \in UserIds :
    /\ pc[u] = "handler"
    /\ req[u].route = AdminStats
    /\ req[u].user.role = "guardia"
    /\ getUser(u).role = "administrador"
\* C30: a step of a confirm request that names a credential id of no row changes
\* no credential and appends no access event; after every step each access event
\* names a stored credential; and the event that a confirm request appends names
\* the credential of the request and, as guard, the caller whom the middlewares
\* identified, whatever guard the body names.
C30_EventsOfExistingCredentialAndCaller ==
  [][/\ \A u \in UserIds :
          (confirming(u) /\ stepOf(u) /\ req[u].qrCodeId \notin DOMAIN qrCodes)
            => qrCodes' = qrCodes /\ accessLogs' = accessLogs
     /\ \A k \in DOMAIN accessLogs' : accessLogs'[k].qrCodeId \in DOMAIN qrCodes'
     /\ \A u \in UserIds :
          (pc[u] = "createAccessLog" /\ stepOf(u) /\ accessLogs' # accessLogs)
            => /\ Len(accessLogs') = Len(accessLogs) + 1
               /\ \A k \in DOMAIN accessLogs : accessLogs'[k] = accessLogs[k]
               /\ accessLogs'[Len(accessLogs')].qrCodeId = req[u].qrCodeId
               /\ accessLogs'[Len(accessLogs')].guardId = u]_vars

\* C30, its case: a confirm request that names a credential of no row and another
\* guard has made its update and is at its insert, while the store holds an
\* event that a request naming another guard has appended
C30_Witness ==
  /\ \E u \in UserIds :
       /\ pc[u] = "createAccessLog"
       /\ req[u].qrCodeId \notin DOMAIN qrCodes
       /\ req[u].guardId # ""
  /\ Len(accessLogs) > 0
  /\ Len(qrCodes) > 0
====
